---- MODULE Spec2Model ----
(***************************************************************************)
(* Model of app.py (Fiasini - Precificacao): the label scanner             *)
(* scan_inputs_from_sheet, the price calculator calcular_precos and the    *)
(* page script that chains upload -> prefill -> form -> calculation ->     *)
(* rendering.                                                              *)
(*                                                                         *)
(* Numbers.  Python floats are modelled as exact rationals [n, d] in       *)
(* lowest terms with d > 0, so every arithmetic identity below is an       *)
(* identity of exact arithmetic; floating-point rounding is not modelled.  *)
(* Python ints are TLA+ integers, text is a TLA+ string, a missing cell    *)
(* (NaN / None) is the cell [t |-> "nan"].                                 *)
(***************************************************************************)
EXTENDS Integers, Sequences, FiniteSets, TLC

VARIABLES
    \* ---- calcular_precos called on its own (SpecCalc)
    args,       \* the nine arguments of the call
    res,        \* what the call produced: NoResult, a result or a ValueError
    \* ---- scan_inputs_from_sheet run pair by pair (SpecScan)
    df,         \* the sheet: a sequence of rows, each a sequence of cells
    r, c,       \* the loop indices of lines 36 and 39 (1-based here)
    defaults,   \* the dictionary being built
    spc,        \* position inside scan_inputs_from_sheet
    \* ---- the page script (Spec)
    pc,         \* position of the script run
    up,         \* the uploaded file
    prefill,    \* line 127 / 133
    toasts,     \* notices issued by st.toast in this run
    widgets,    \* values the user typed into the form (session state)
    fields,     \* what the ten form fields returned in this run
    out,        \* result of the calculation in this run
    shown,      \* elements rendered below the divider in this run
    edits       \* number of user edits so far

vars == <<args, res, df, r, c, defaults, spc,
          pc, up, prefill, toasts, widgets, fields, out, shown, edits>>

calcVars == <<args, res>>
scanVars == <<df, r, c, defaults, spc>>
pageVars == <<pc, up, prefill, toasts, widgets, fields, out, shown, edits>>

(***************************************************************************)
(* Exact rational arithmetic standing for Python's float operators.        *)
(***************************************************************************)
Abs(x) == IF x < 0 THEN -x ELSE x

RECURSIVE GCD(_, _)
GCD(a, b) == IF b = 0 THEN a ELSE GCD(b, a % b)

LCM(a, b) == (a \div GCD(a, b)) * b

\* n/d in lowest terms, d > 0
Rat(n, d) ==
    LET s == IF d < 0 THEN -1 ELSE 1
        g == GCD(Abs(n), Abs(d))
    IN  [n |-> (s * n) \div g, d |-> (s * d) \div g]

Zero == Rat(0, 1)
One == Rat(1, 1)

RAdd(a, b) ==
    LET L == LCM(a.d, b.d)
    IN  Rat(a.n * (L \div a.d) + b.n * (L \div b.d), L)

RNeg(a) == [n |-> -a.n, d |-> a.d]

RSub(a, b) == RAdd(a, RNeg(b))

RMul(a, b) ==
    LET g1 == GCD(Abs(a.n), b.d)
        g2 == GCD(Abs(b.n), a.d)
    IN  Rat((a.n \div g1) * (b.n \div g2), (a.d \div g2) * (b.d \div g1))

\* b # 0
RDiv(a, b) == RMul(a, Rat(b.d, b.n))

RLt(a, b) ==
    LET L == LCM(a.d, b.d)
    IN  a.n * (L \div a.d) < b.n * (L \div b.d)

RLe(a, b) == ~RLt(b, a)

RSum6(s) == RAdd(RAdd(RAdd(s[1], s[2]), RAdd(s[3], s[4])), RAdd(s[5], s[6]))

(***************************************************************************)
(* calcular_precos (lines 69-117).                                         *)
(***************************************************************************)
None == [none |-> TRUE]

NoResult == [status |-> "none"]

\* Python's `x or 0`: a falsy x (None, 0, 0.0) gives 0
OrZero(x) == IF x = None \/ x = Zero THEN Zero ELSE x

Hundred == Rat(100, 1)
Sixty == Rat(60, 1)

MsgSoma == "A soma das alíquotas sobre PV é >= 100%. Ajuste os percentuais."
MsgEfetiva == "A taxa efetiva é >= 100%. Ajuste o percentual."

ValueError(msg) == [status |-> "ValueError", msg |-> msg]

Componente ==
    <<"Custo Fabricação", "Impostos", "Comissão", "Despesas Variáveis",
      "Margem", "Taxa Efetiva">>

\* line 110: a pandas column division; 0/0 gives NaN, never an exception
PctDoPV(valor, pv) ==
    IF pv = Zero THEN [t |-> "nan"]
    ELSE [t |-> "float", v |-> RMul(RDiv(valor, pv), Hundred)]

\* line 88
soma_rates(a) ==
    RAdd(RAdd(RAdd(RDiv(OrZero(a.impostos), Hundred),
                   RDiv(OrZero(a.comissao), Hundred)),
              RDiv(OrZero(a.despesas_var), Hundred)),
         RDiv(OrZero(a.margem), Hundred))

\* line 85
r_efetiva(a) == RDiv(OrZero(a.taxa_efetiva), Hundred)

\* line 87
custo_fab(a) ==
    RAdd(OrZero(a.mpd),
         RMul(RAdd(OrZero(a.cif_hora), OrZero(a.mod_hora)),
              RDiv(OrZero(a.tempo_min), Sixty)))

\* line 92
pv_base(a) == RDiv(custo_fab(a), RSub(One, soma_rates(a)))

\* mutant: the effective rate blended into the first denominator
pv_final_blended(a) ==
    RDiv(custo_fab(a), RSub(RSub(One, soma_rates(a)), r_efetiva(a)))

\* mutant: the effective rate taken off the base price instead of grossed up
pv_final_discount(a) == RMul(pv_base(a), RSub(One, r_efetiva(a)))

\* line 95
pv_final(a) == RDiv(pv_base(a), RSub(One, r_efetiva(a)))

\* lines 98-108: the "Valor (R$)" column
Valores(a) ==
    <<custo_fab(a),
      RMul(pv_final(a), RDiv(OrZero(a.impostos), Hundred)),
      RMul(pv_final(a), RDiv(OrZero(a.comissao), Hundred)),
      RMul(pv_final(a), RDiv(OrZero(a.despesas_var), Hundred)),
      RMul(pv_final(a), RDiv(OrZero(a.margem), Hundred)),
      RMul(pv_final(a), r_efetiva(a))>>

\* lines 106-117: the returned dictionary
Resultado(a) ==
    [status |-> "ok",
     custo_fabricacao |-> custo_fab(a),
     pv_base_sem_efetiva |-> pv_base(a),
     pv_final |-> pv_final(a),
     breakdown |->
         [Componente |-> Componente,
          Valor |-> Valores(a),
          Pct |-> [i \in 1..6 |-> PctDoPV(Valores(a)[i], pv_final(a))]]]

\* mutant: the effective-rate cap tested before the rate-sum cap
calcular_precos_efetiva_first(a) ==
    IF RLe(One, r_efetiva(a)) THEN ValueError(MsgEfetiva)
    ELSE IF RLe(One, soma_rates(a)) THEN ValueError(MsgSoma)
    ELSE Resultado(a)

\* lines 89-95: the two raises, in order
calcular_precos(a) ==
    IF RLe(One, soma_rates(a)) THEN ValueError(MsgSoma)
    ELSE IF RLe(One, r_efetiva(a)) THEN ValueError(MsgEfetiva)
    ELSE Resultado(a)

(***************************************************************************)
(* SpecCalc: calcular_precos applied to arguments drawn from a grid of     *)
(* percentages (multiples of 25) and costs, plus the worked examples.      *)
(***************************************************************************)
MaxPctSteps == 4
MaxMpd == 1

Pcts == {Rat(25 * k, 1) : k \in 0..MaxPctSteps}

Args(m, ci, mo, t, i, co, dv, mg, te) ==
    [mpd |-> m, cif_hora |-> ci, mod_hora |-> mo, tempo_min |-> t,
     impostos |-> i, comissao |-> co, despesas_var |-> dv, margem |-> mg,
     taxa_efetiva |-> te]

\* (cif_hora, mod_hora, tempo_min)
HourlyCosts ==
    {<<Zero, Zero, Zero>>,
     <<Rat(20, 1), Rat(10, 1), Rat(60, 1)>>,
     <<Rat(7, 1), Zero, Rat(45, 1)>>}

GridArgs ==
    {Args(Rat(m, 1), h[1], h[2], h[3], i, co, dv, mg, te) :
        m \in 0..MaxMpd, h \in HourlyCosts,
        i \in Pcts, co \in Pcts, dv \in Pcts, mg \in Pcts, te \in Pcts}

R(n) == Rat(n, 1)

ExampleArgs == Args(R(100), R(20), R(10), R(60), R(10), R(5), R(5), R(10), R(3))

ExamplesArgs ==
    {ExampleArgs,
     \* the failure example: 50 + 30 + 15 + 10 = 105%
     Args(R(100), R(20), R(10), R(60), R(50), R(30), R(15), R(10), R(3)),
     \* the form's maximum, 99.99, and its step, 0.25
     Args(R(10), Zero, Zero, Zero, Rat(9999, 100), Zero, Zero, Zero, Rat(9999, 100)),
     Args(R(10), Zero, Zero, Zero, Rat(9999, 100), Rat(1, 100), Zero, Zero, Zero),
     Args(R(10), R(6), R(6), R(10), Rat(1, 4), Rat(1, 4), Zero, Zero, Rat(1, 4)),
     \* missing arguments
     Args(None, None, None, None, None, None, None, None, None),
     Args(R(10), None, R(6), R(30), None, R(5), None, R(10), None),
     \* negative values (the form refuses them, the function does not)
     Args(R(10), Zero, Zero, Zero, R(-50), Zero, Zero, Zero, Zero),
     Args(R(10), Zero, Zero, Zero, R(150), R(-100), Zero, Zero, R(-25))}

CalcInputs == GridArgs \cup ExamplesArgs

IdleScan == df = <<>> /\ r = 0 /\ c = 0 /\ defaults = <<>> /\ spc = "idle"


IdlePage ==
    /\ pc = "idle" /\ up = None /\ prefill = <<>> /\ toasts = <<>>
    /\ widgets = <<>> /\ fields = <<>> /\ out = NoResult /\ shown = {}
    /\ edits = 0

InitCalc ==
    /\ args \in CalcInputs
    /\ res = NoResult
    /\ IdleScan
    /\ IdlePage

Calcular ==
    /\ res = NoResult
    /\ res' = calcular_precos(args)
    /\ UNCHANGED <<args, scanVars, pageVars>>

NextCalc == Calcular

SpecCalc == InitCalc /\ [][NextCalc]_vars

(***************************************************************************)
(* Claims about calcular_precos.  The fractions, the rate sum and the      *)
(* preconditions are restated here from the arguments alone.               *)
(***************************************************************************)
Frac(x) == RDiv(OrZero(x), Hundred)

RateSumOf(a) ==
    RAdd(RAdd(Frac(a.impostos), Frac(a.comissao)),
         RAdd(Frac(a.despesas_var), Frac(a.margem)))

EffOf(a) == Frac(a.taxa_efetiva)

ArgNames ==
    {"mpd", "cif_hora", "mod_hora", "tempo_min", "impostos", "comissao",
     "despesas_var", "margem", "taxa_efetiva"}

NonNegArgs(a) == \A k \in ArgNames : a[k] # None /\ RLe(Zero, a[k])

Accepted(a) == RLt(RateSumOf(a), One) /\ RLt(EffOf(a), One)

Called == res # NoResult

CostOf(a) ==
    RAdd(OrZero(a.mpd),
         RDiv(RMul(RAdd(OrZero(a.cif_hora), OrZero(a.mod_hora)),
                   OrZero(a.tempo_min)), Sixty))

\* C1: for non-negative accepted arguments the six breakdown values (the
\* manufacturing cost as-is and final_price times each of the five
\* fractions) sum to final_price.  The code's values sum to
\* final_price * (1 + rate_sum * effective_fraction) instead.
C1_BreakdownSumsToFinalPrice ==
    (Called /\ NonNegArgs(args) /\ Accepted(args)) =>
        /\ res.status = "ok"
        /\ res.breakdown.Valor =
              <<res.custo_fabricacao,
                RMul(res.pv_final, Frac(args.impostos)),
                RMul(res.pv_final, Frac(args.comissao)),
                RMul(res.pv_final, Frac(args.despesas_var)),
                RMul(res.pv_final, Frac(args.margem)),
                RMul(res.pv_final, EffOf(args))>>
        /\ RSum6(res.breakdown.Valor) = res.pv_final

AnyRatePositive(a) == RLt(Zero, RateSumOf(a)) \/ RLt(Zero, EffOf(a))

AllRatesZero(a) ==
    \A k \in {"impostos", "comissao", "despesas_var", "margem", "taxa_efetiva"} :
        OrZero(a[k]) = Zero

\* C2 as stated: final_price > base_price > manufacturing_cost whenever any
\* rate is positive, and all three equal when all rates are zero.
C2_Original ==
    (Called /\ NonNegArgs(args) /\ Accepted(args)) =>
        /\ res.status = "ok"
        /\ AnyRatePositive(args) =>
               /\ RLt(res.pv_base_sem_efetiva, res.pv_final)
               /\ RLt(res.custo_fabricacao, res.pv_base_sem_efetiva)
        /\ AllRatesZero(args) =>
               /\ res.pv_final = res.pv_base_sem_efetiva
               /\ res.pv_base_sem_efetiva = res.custo_fabricacao

\* C2 amended: final_price >= base_price >= manufacturing_cost; base_price >
\* manufacturing_cost exactly when the cost and the rate sum are positive;
\* final_price > base_price exactly when the cost and the effective rate
\* are positive; all three are equal when all five rates are zero.
C2_PriceOrdering ==
    (Called /\ NonNegArgs(args) /\ Accepted(args)) =>
        /\ res.status = "ok"
        /\ RLe(res.pv_base_sem_efetiva, res.pv_final)
        /\ RLe(res.custo_fabricacao, res.pv_base_sem_efetiva)
        /\ RLt(res.custo_fabricacao, res.pv_base_sem_efetiva)
              <=> (RLt(Zero, CostOf(args)) /\ RLt(Zero, RateSumOf(args)))
        /\ RLt(res.pv_base_sem_efetiva, res.pv_final)
              <=> (RLt(Zero, CostOf(args)) /\ RLt(Zero, EffOf(args)))
        /\ AllRatesZero(args) =>
               /\ res.pv_final = res.pv_base_sem_efetiva
               /\ res.pv_base_sem_efetiva = res.custo_fabricacao

C2_Witness ==
    /\ Called /\ NonNegArgs(args) /\ Accepted(args)
    /\ RLt(Zero, RateSumOf(args)) /\ RLt(Zero, EffOf(args))
    /\ RLt(Zero, CostOf(args))
    /\ RLt(res.custo_fabricacao, res.pv_base_sem_efetiva)
    /\ RLt(res.pv_base_sem_efetiva, res.pv_final)

\* C3: a result is returned iff rate_sum < 1 and effective_fraction < 1;
\* rate_sum >= 1 gives the rate-sum error (also when the effective cap is
\* reached too), rate_sum < 1 with effective_fraction >= 1 gives the
\* effective-rate error, and a failure carries no price or breakdown.
C3_OverCapErrors ==
    Called =>
        /\ res.status = "ok" <=> Accepted(args)
        /\ RLe(One, RateSumOf(args)) => res = ValueError(MsgSoma)
        /\ (RLt(RateSumOf(args), One) /\ RLe(One, EffOf(args)))
               => res = ValueError(MsgEfetiva)
        /\ res.status # "ok" => DOMAIN res = {"status", "msg"}
        /\ res.status = "ok" =>
               {"custo_fabricacao", "pv_base_sem_efetiva", "pv_final",
                "breakdown"} \subseteq DOMAIN res

C3_Witness ==
    /\ Called
    /\ RateSumOf(args) = One /\ EffOf(args) = One
    /\ res = ValueError(MsgSoma)

\* C4: manufacturing_cost = mpd + (cif_hora + mod_hora) * tempo_min / 60,
\* base_price * (1 - rate_sum) = manufacturing_cost over the four gross-up
\* rates only, final_price * (1 - effective_fraction) = base_price; the
\* worked example gives 130, 130/0.70 and base_price/0.97.
C4_GrossUpFormulas ==
    (Called /\ Accepted(args)) =>
        /\ res.status = "ok"
        /\ res.custo_fabricacao = CostOf(args)
        /\ RMul(res.pv_base_sem_efetiva, RSub(One, RateSumOf(args)))
               = res.custo_fabricacao
        /\ RMul(res.pv_final, RSub(One, EffOf(args)))
               = res.pv_base_sem_efetiva
        /\ args = ExampleArgs =>
               /\ res.custo_fabricacao = Rat(130, 1)
               /\ res.pv_base_sem_efetiva = RDiv(Rat(130, 1), Rat(70, 100))
               /\ res.pv_final = RDiv(res.pv_base_sem_efetiva, Rat(97, 100))

C4_Witness ==
    /\ Called /\ args = ExampleArgs
    /\ res.status = "ok"
    /\ res.pv_final = Rat(130000, 679)

(***************************************************************************)
(* Text helpers: Python's str methods on TLA+ strings.                     *)
(***************************************************************************)
Ch(s, i) == SubSeq(s, i, i)

From(s, i) == SubSeq(s, i, Len(s))

\* `sub in s`
Contains(sub, s) ==
    \E i \in 1..(Len(s) - Len(sub) + 1) : SubSeq(s, i, i + Len(sub) - 1) = sub

\* s.replace(old, new): non-overlapping occurrences, left to right
RECURSIVE Replace(_, _, _)
Replace(s, old, new) ==
    IF Len(s) < Len(old) THEN s
    ELSE IF SubSeq(s, 1, Len(old)) = old
         THEN new \o Replace(From(s, Len(old) + 1), old, new)
         ELSE Ch(s, 1) \o Replace(From(s, 2), old, new)

RECURSIVE LStrip(_)
LStrip(s) == IF Len(s) > 0 /\ Ch(s, 1) = " " THEN LStrip(From(s, 2)) ELSE s

RECURSIVE RStrip(_)
RStrip(s) ==
    IF Len(s) > 0 /\ Ch(s, Len(s)) = " "
    THEN RStrip(SubSeq(s, 1, Len(s) - 1)) ELSE s

\* s.strip()
Strip(s) == RStrip(LStrip(s))

\* the letters of the sheets' alphabet that have a lower-case form
LowerTable ==
    ("A" :> "a") @@ ("B" :> "b") @@ ("C" :> "c") @@ ("D" :> "d") @@ ("E" :> "e") @@
    ("F" :> "f") @@ ("G" :> "g") @@ ("H" :> "h") @@ ("I" :> "i") @@ ("J" :> "j") @@
    ("K" :> "k") @@ ("L" :> "l") @@ ("M" :> "m") @@ ("N" :> "n") @@ ("O" :> "o") @@
    ("P" :> "p") @@ ("Q" :> "q") @@ ("R" :> "r") @@ ("S" :> "s") @@ ("T" :> "t") @@
    ("U" :> "u") @@ ("V" :> "v") @@ ("W" :> "w") @@ ("X" :> "x") @@ ("Y" :> "y") @@
    ("Z" :> "z") @@ ("Á" :> "á") @@ ("Ã" :> "ã") @@ ("Ç" :> "ç") @@ ("É" :> "é")

LowerChar(ch) == IF ch \in DOMAIN LowerTable THEN LowerTable[ch] ELSE ch

\* s.lower()
RECURSIVE Lower(_)
Lower(s) == IF Len(s) = 0 THEN s ELSE LowerChar(Ch(s, 1)) \o Lower(From(s, 2))

(***************************************************************************)
(* Cells of a sheet and Python values.                                     *)
(***************************************************************************)
NaN == [t |-> "nan"]
S(text) == [t |-> "str", v |-> text]
F(n, d) == [t |-> "float", v |-> Rat(n, d)]
I(n) == [t |-> "int", v |-> n]

IsStr(x) == x.t = "str"

\* pd.isna / pd.notna on a scalar
IsNa(x) == x.t = "nan"

\* lines 10-13: only the doubled spaces found in one left-to-right pass
\* are collapsed
_norm(x) ==
    IF IsStr(x)
    THEN S(Replace(Replace(Lower(Strip(x.v)), "*", ""), "  ", " "))
    ELSE x

Digits == "0123456789"

IsDigit(ch) == \E i \in 1..10 : Ch(Digits, i) = ch

DigitVal(ch) == (CHOOSE i \in 1..10 : Ch(Digits, i) = ch) - 1

RECURSIVE AllDigits(_)
AllDigits(s) == Len(s) = 0 \/ (IsDigit(Ch(s, 1)) /\ AllDigits(From(s, 2)))

\* value of a digit string, most significant digit first
RECURSIVE DigitsVal(_)
DigitsVal(s) ==
    IF Len(s) = 0 THEN 0
    ELSE 10 * DigitsVal(SubSeq(s, 1, Len(s) - 1)) + DigitVal(Ch(s, Len(s)))

RECURSIVE Pow10(_)
Pow10(k) == IF k = 0 THEN 1 ELSE 10 * Pow10(k - 1)

\* position of the first "." of s, 0 when there is none
DotAt(s) ==
    IF Contains(".", s) THEN CHOOSE i \in 1..Len(s) :
                                 Ch(s, i) = "." /\ ~Contains(".", SubSeq(s, 1, i - 1))
    ELSE 0

\* float(text) on plain decimal notation: [sign] digits [. digits], blanks
\* around it ignored.  [ok |-> FALSE] stands for the ValueError.
\* (Exponents, "inf", "nan" and digit separators are outside this model;
\* no text of the sheets below uses them.)
ParseFloat(text) ==
    LET t0 == Strip(text)
        neg == Len(t0) > 0 /\ Ch(t0, 1) = "-"
        t1 == IF Len(t0) > 0 /\ (Ch(t0, 1) = "-" \/ Ch(t0, 1) = "+")
              THEN From(t0, 2) ELSE t0
        dot == DotAt(t1)
        ip == IF dot = 0 THEN t1 ELSE SubSeq(t1, 1, dot - 1)
        fp == IF dot = 0 THEN "" ELSE From(t1, dot + 1)
        wellFormed == AllDigits(ip) /\ AllDigits(fp) /\ Len(ip) + Len(fp) > 0
        mag == Rat(DigitsVal(ip) * Pow10(Len(fp)) + DigitsVal(fp), Pow10(Len(fp)))
    IN  IF wellFormed
        THEN [ok |-> TRUE, v |-> IF neg THEN RNeg(mag) ELSE mag]
        ELSE [ok |-> FALSE]

\* an exception on its way out of the function that raised it
Raised(what) == [raised |-> what]

IsRaised(v) == DOMAIN v = {"raised"}

\* mutant: without the except clause of lines 22-23
try_float_uncaught(x) ==
    IF IsNa(x) THEN Zero
    ELSE IF IsStr(x)
    THEN LET p == ParseFloat(Strip(Replace(Replace(x.v, "%", ""), ",", ".")))
         IN  IF p.ok THEN p.v ELSE Raised("ValueError")
    ELSE IF x.t = "int" THEN Rat(x.v, 1)
    ELSE x.v

\* lines 15-23, default = 0.0
try_float(x) ==
    IF IsNa(x) THEN Zero
    ELSE IF IsStr(x)
    THEN LET p == ParseFloat(Strip(Replace(Replace(x.v, "%", ""), ",", ".")))
         IN  IF p.ok THEN p.v ELSE Zero
    ELSE IF x.t = "int" THEN Rat(x.v, 1)
    ELSE x.v

\* decimal digits of a natural number
RECURSIVE NatStr(_)
NatStr(n) ==
    IF n < 10 THEN Ch(Digits, n + 1)
    ELSE NatStr(n \div 10) \o Ch(Digits, (n % 10) + 1)

IntStr(n) == IF n < 0 THEN "-" \o NatStr(-n) ELSE NatStr(n)

\* the shortest k with q.d dividing 10^k (q a decimal fraction)
RECURSIVE DecPlaces(_, _)
DecPlaces(q, k) == IF Pow10(k) % q.d = 0 THEN k ELSE DecPlaces(q, k + 1)

RECURSIVE PadLeft(_, _)
PadLeft(s, k) == IF Len(s) >= k THEN s ELSE PadLeft("0" \o s, k)

\* repr of a float that is a short decimal fraction: 12.0 -> "12.0"
FloatStr(q) ==
    LET k == IF q.d = 1 THEN 1 ELSE DecPlaces(q, 1)
        m == Abs(q.n) * (Pow10(k) \div q.d)
    IN  (IF q.n < 0 THEN "-" ELSE "")
        \o NatStr(m \div Pow10(k)) \o "." \o PadLeft(NatStr(m % Pow10(k)), k)

\* str(val)
Str(x) ==
    IF IsStr(x) THEN x.v
    ELSE IF x.t = "int" THEN IntStr(x.v)
    ELSE IF x.t = "float" THEN FloatStr(x.v)
    ELSE "nan"

(***************************************************************************)
(* scan_inputs_from_sheet (lines 25-67).                                   *)
(***************************************************************************)
\* the keys, in the order of the ifs of lines 45-65
KeyOrder ==
    <<"produto", "mpd", "cif_hora", "mod_hora", "tempo_min", "impostos_pct",
      "comissao_pct", "despesas_var_pct", "margem_pct", "taxa_efetiva_pct">>

Keys == {KeyOrder[i] : i \in 1..Len(KeyOrder)}

NumericKeys == Keys \ {"produto"}

\* line 55
IsTaxLabel(label) ==
    Contains("imposto", label) \/ Contains("impostos", label)
    \/ Contains("icms", label) \/ Contains("pis", label)
    \/ Contains("cofins", label) \/ Contains("iss", label)

\* the conditions of lines 45, 47, 49, 51, 53, 55, 58, 60, 62 and 64 on a
\* normalized label
Matches(k, label) ==
    CASE k = "produto" -> Contains("nome do produto", label)
      [] k = "mpd" ->
            Contains("matéria prima", label) \/ Contains("materia prima", label)
            \/ Contains("mpd", label)
      [] k = "cif_hora" -> Contains("cif", label) /\ Contains("hora", label)
      [] k = "mod_hora" ->
            \/ Contains("mod", label) /\ Contains("hora", label)
            \/ Contains("mão de obra", label) /\ Contains("hora", label)
      [] k = "tempo_min" ->
            /\ Contains("tempo", label)
            /\ (Contains("fabrica", label) \/ Contains("fabricação", label)
                \/ Contains("produc", label))
            /\ (Contains("min", label) \/ Contains("minuto", label))
      [] k = "impostos_pct" -> IsTaxLabel(label)
      [] k = "comissao_pct" ->
            Contains("comissão", label) \/ Contains("comissao", label)
      [] k = "despesas_var_pct" ->
            Contains("despesa", label)
            /\ (Contains("variável", label) \/ Contains("variavel", label))
      [] k = "margem_pct" -> Contains("margem", label)
      [] k = "taxa_efetiva_pct" ->
            Contains("taxa efetiva", label) \/ Contains("antecipação", label)
            \/ Contains("antecipacao", label)

\* the right-hand sides of the assignments of lines 46-65
Coerce(k, val) ==
    IF k = "produto" THEN (IF ~IsNa(val) THEN Str(val) ELSE "")
    ELSE try_float(val)

EmptyDict == <<>>

\* d[k] = v
Put(d, k, v) == (k :> v) @@ d

\* d.setdefault(k, v)
SetDefault(d, k, v) == IF k \in DOMAIN d THEN d ELSE Put(d, k, v)

\* d.get(k, dflt)
Get(d, k, dflt) == IF k \in DOMAIN d THEN d[k] ELSE dflt

\* mutant: the tax key assigned like the other keys (last match wins)
Assign_all_overwrite(d, k, val) == Put(d, k, Coerce(k, val))

\* the statement under one matching if: line 57 is a setdefault, the
\* others are plain assignments
Assign(d, k, val) ==
    IF k = "impostos_pct" THEN SetDefault(d, k, Coerce(k, val))
    ELSE Put(d, k, Coerce(k, val))

\* lines 45-65 from the i-th if on, label a normalized text
RECURSIVE IfsFrom(_, _, _, _)
IfsFrom(d, label, val, i) ==
    IF i > Len(KeyOrder) THEN d
    ELSE IfsFrom(IF Matches(KeyOrder[i], label)
                 THEN Assign(d, KeyOrder[i], val) ELSE d,
                 label, val, i + 1)

\* mutant: the ifs of lines 45-64 chained as if / elif
ScanPair_first_if_only(d, left, val) ==
    LET label == _norm(left)
    IN  IF ~IsStr(label) THEN d
        ELSE IF \E i \in 1..Len(KeyOrder) : Matches(KeyOrder[i], label.v)
        THEN LET i == CHOOSE i \in 1..Len(KeyOrder) :
                         /\ Matches(KeyOrder[i], label.v)
                         /\ \A j \in 1..(i - 1) : ~Matches(KeyOrder[j], label.v)
             IN  Assign(d, KeyOrder[i], val)
        ELSE d

\* lines 40-65: the body of the inner loop on the pair (left, val)
ScanPair(d, left, val) ==
    LET label == _norm(left)
    IN  IF ~IsStr(label) THEN d ELSE IfsFrom(d, label.v, val, 1)

\* an exception raised while the body ran leaves the function
Failed(d) == \E k \in DOMAIN d \cap NumericKeys : IsRaised(d[k])

NCols(sheet) == IF Len(sheet) = 0 THEN 0 ELSE Len(sheet[1])

\* df.empty: an axis of length 0
IsEmpty(sheet) == Len(sheet) = 0 \/ NCols(sheet) = 0

\* whether the loops of lines 36 and 39 have a pair after (i, j)
HasNext(sheet, i, j) == j < NCols(sheet) - 1 \/ i < Len(sheet)

NextR(sheet, i, j) == IF j < NCols(sheet) - 1 THEN i ELSE i + 1

NextC(sheet, i, j) == IF j < NCols(sheet) - 1 THEN j + 1 ELSE 1

\* the loops of lines 36-65 from pair (i, j) on (the dictionary after the
\* pair is bound once, as a value, before the loop goes on)
RECURSIVE ScanFrom(_, _, _, _)
ScanFrom(d, sheet, i, j) ==
    CHOOSE result \in
        {IF HasNext(sheet, i, j) /\ ~Failed(d1)
         THEN ScanFrom(d1, sheet, NextR(sheet, i, j), NextC(sheet, i, j))
         ELSE d1 :
            d1 \in {ScanPair(d, sheet[i][j], sheet[i][j + 1])}} : TRUE

\* the whole function, as the page script calls it
scan_inputs_from_sheet(sheet) ==
    IF IsEmpty(sheet) \/ NCols(sheet) < 2 THEN EmptyDict
    ELSE ScanFrom(EmptyDict, sheet, 1, 1)

(***************************************************************************)
(* SpecScan: scan_inputs_from_sheet run pair by pair on sheets of up to    *)
(* MaxRows rows drawn from RowPool.                                        *)
(***************************************************************************)
MaxRows == 2

RowPool ==
    <<  <<S("Nome do Produto"), S("Mesa"), NaN>>,
        <<S("nome do produto:"), F(25, 2), I(7)>>,
        <<S(" Matéria  Prima* "), F(21, 2), NaN>>,
        <<S("CIF HORA"), S("R$ 20,50"), NaN>>,
        <<S("Mão de obra/hora"), S("MOD por hora"), I(12)>>,
        <<S("Tempo de fabricação (min)"), S(" 45 "), NaN>>,
        <<NaN, S("ICMS"), S("18%")>>,
        <<S("CIF/hora"), S("Impostos"), S("n/a")>>,
        <<S("COMISSÃO"), S("5,5%"), NaN>>,
        <<S("Despesa Variável"), S("comissao"), F(4, 1)>>,
        <<S("Margem"), S("Taxa Efetiva"), F(3, 1)>>,
        <<NaN, S("Margem*"), F(150, 1)>>,
        <<S("Total"), F(-5, 1), NaN>>,
        <<I(7), S("Antecipação"), NaN>>  >>

Sheets ==
    UNION {[1..n -> 1..Len(RowPool)] : n \in 0..MaxRows}

SheetOf(ix) == [i \in 1..Len(ix) |-> RowPool[ix[i]]]

InitScan ==
    /\ \E ix \in Sheets : df = SheetOf(ix)
    /\ r = 0 /\ c = 0
    /\ defaults = EmptyDict
    /\ spc = "start"
    /\ args = ExampleArgs /\ res = NoResult
    /\ IdlePage

\* lines 30-36: the empty test and the entry into the loops
ScanEnter ==
    /\ spc = "start"
    /\ defaults' = EmptyDict
    /\ IF IsEmpty(df) \/ NCols(df) < 2
       THEN spc' = "returned" /\ UNCHANGED <<r, c>>
       ELSE spc' = "loop" /\ r' = 1 /\ c' = 1
    /\ UNCHANGED <<df, calcVars, pageVars>>

\* lines 36-39: on to the next pair, or line 67
Advance ==
    IF Failed(defaults') THEN spc' = "raised" /\ UNCHANGED <<r, c>>
    ELSE IF HasNext(df, r, c)
    THEN r' = NextR(df, r, c) /\ c' = NextC(df, r, c) /\ spc' = "loop"
    ELSE spc' = "returned" /\ UNCHANGED <<r, c>>

\* lines 40-43: the left cell is not text
ScanSkip ==
    /\ spc = "loop"
    /\ ~IsStr(_norm(df[r][c]))
    /\ defaults' = ScanPair(defaults, df[r][c], df[r][c + 1])
    /\ Advance
    /\ UNCHANGED <<df, calcVars, pageVars>>

\* lines 40-65: the left cell is text
ScanLabel ==
    /\ spc = "loop"
    /\ IsStr(_norm(df[r][c]))
    /\ defaults' = ScanPair(defaults, df[r][c], df[r][c + 1])
    /\ Advance
    /\ UNCHANGED <<df, calcVars, pageVars>>

NextScan == ScanEnter \/ ScanSkip \/ ScanLabel

SpecScan == InitScan /\ [][NextScan]_vars

(***************************************************************************)
(* Claims about scan_inputs_from_sheet.                                    *)
(***************************************************************************)
Pairs == {p \in (1..Len(df)) \X (1..3) : p[2] < NCols(df)}

\* the pair p has been through the loop body
Done(p) ==
    \/ spc = "returned" /\ ~IsEmpty(df)
    \/ spc = "loop" /\ (p[1] < r \/ (p[1] = r /\ p[2] < c))

LabelAt(p) == _norm(df[p[1]][p[2]])

ValAt(p) == df[p[1]][p[2] + 1]

\* the pairs already scanned whose left cell is a text matching key k
MatchedBy(k) ==
    {p \in Pairs : Done(p) /\ IsStr(df[p[1]][p[2]]) /\ Matches(k, LabelAt(p).v)}

\* row-major order
Before(p, q) == p[1] < q[1] \/ (p[1] = q[1] /\ p[2] < q[2])

FirstOf(ps) == CHOOSE p \in ps : \A q \in ps : q = p \/ Before(p, q)

LastOf(ps) == CHOOSE p \in ps : \A q \in ps : q = p \/ Before(q, p)

\* C6: throughout the scan impostos_pct holds the value of the first
\* matching pair (later matches never change it) and every other key holds
\* the coerced value of the most recent matching pair.
C6_FirstTaxWinsOthersLastWins ==
    \A k \in Keys : \A m \in {MatchedBy(k)} :
        m # {} =>
            /\ k \in DOMAIN defaults
            /\ defaults[k] =
                  IF k = "impostos_pct"
                  THEN try_float(ValAt(FirstOf(m)))
                  ELSE Coerce(k, ValAt(LastOf(m)))

C6_Witness ==
    /\ spc = "returned"
    /\ \E p, q \in MatchedBy("impostos_pct") :
           /\ Before(p, q)
           /\ try_float(ValAt(p)) # try_float(ValAt(q))
    /\ \E p, q \in MatchedBy("comissao_pct") :
           /\ Before(p, q)
           /\ try_float(ValAt(p)) # try_float(ValAt(q))
           /\ defaults["comissao_pct"] = try_float(ValAt(q))

\* the right cell is missing or is a text that is no number
NoNumber(val) ==
    \/ IsNa(val)
    \/ IsStr(val)
       /\ ~ParseFloat(Strip(Replace(Replace(val.v, "%", ""), ",", "."))).ok

AtPair == spc = "loop"

CurLeft == df[r][c]

CurVal == df[r][c + 1]

C8_NeverFails == spc # "raised" /\ ~Failed(defaults)

C8_SkipChangesNothing == (AtPair /\ ~IsStr(CurLeft)) => defaults' = defaults

C8_PresentIffMatched == \A k \in Keys : k \in DOMAIN defaults <=> MatchedBy(k) # {}

\* C8 as stated: the scan never fails, a pair with a non-text left cell
\* changes nothing, a key is present iff some scanned pair matched it, and a
\* matching pair whose right cell is missing or no number leaves the key
\* present with value 0.0.
C8_Original ==
    /\ [](C8_NeverFails /\ C8_PresentIffMatched)
    /\ [][C8_SkipChangesNothing]_vars
    /\ [][\A k \in NumericKeys :
             (AtPair /\ IsStr(CurLeft) /\ Matches(k, _norm(CurLeft).v)
                 /\ NoNumber(CurVal))
             => (k \in DOMAIN defaults' /\ defaults'[k] = Zero)]_vars

\* C8 amended: as stated, except that impostos_pct, when an earlier pair
\* has already set it, keeps its earlier value instead of becoming 0.0.
C8_ScanNeverFails ==
    /\ [](C8_NeverFails /\ C8_PresentIffMatched)
    /\ [][C8_SkipChangesNothing]_vars
    /\ [][\A k \in NumericKeys :
             (AtPair /\ IsStr(CurLeft) /\ Matches(k, _norm(CurLeft).v)
                 /\ NoNumber(CurVal))
             => /\ k \in DOMAIN defaults'
                /\ defaults'[k] =
                      IF k = "impostos_pct" /\ k \in DOMAIN defaults
                      THEN defaults[k] ELSE Zero]_vars

C8_Witness ==
    /\ spc = "returned"
    /\ \E p \in MatchedBy("cif_hora") :
           /\ NoNumber(ValAt(p))
           /\ defaults["cif_hora"] = Zero
    /\ \E p \in MatchedBy("impostos_pct") :
           /\ NoNumber(ValAt(p))
           /\ defaults["impostos_pct"] # Zero
    /\ \E p \in Pairs : ~IsStr(df[p[1]][p[2]])
    /\ "margem_pct" \notin DOMAIN defaults

IsCommissionLabel(label) ==
    Contains("comissão", label) \/ Contains("comissao", label)

\* C10: on every pair each key whose predicate the label satisfies is
\* updated from that pair's right cell and every other key is left as it
\* was; a label containing "comissão"/"comissao" sets comissao_pct and, if
\* impostos_pct is still absent, impostos_pct to the same value, which no
\* later pair replaces.
C10_IndependentPredicates ==
    [][AtPair /\ IsStr(CurLeft) =>
        LET label == _norm(CurLeft).v
        IN  /\ \A k \in Keys :
                   IF Matches(k, label)
                   THEN /\ k \in DOMAIN defaults'
                        /\ (k # "impostos_pct" \/ k \notin DOMAIN defaults)
                               => defaults'[k] = Coerce(k, CurVal)
                   ELSE /\ k \in DOMAIN defaults' <=> k \in DOMAIN defaults
                        /\ k \in DOMAIN defaults => defaults'[k] = defaults[k]
            /\ IsCommissionLabel(label) =>
                   /\ "comissao_pct" \in DOMAIN defaults'
                   /\ defaults'["comissao_pct"] = try_float(CurVal)
                   /\ "impostos_pct" \in DOMAIN defaults'
                   /\ "impostos_pct" \notin DOMAIN defaults
                          => defaults'["impostos_pct"] = try_float(CurVal)
            /\ "impostos_pct" \in DOMAIN defaults
                   => defaults'["impostos_pct"] = defaults["impostos_pct"]
    ]_vars

C10_Witness ==
    /\ spc = "returned"
    /\ \E p, q \in MatchedBy("impostos_pct") :
           /\ Before(p, q)
           /\ p = FirstOf(MatchedBy("impostos_pct"))
           /\ IsCommissionLabel(LabelAt(p).v)
           /\ ~IsCommissionLabel(LabelAt(q).v)
           /\ try_float(ValAt(q)) # try_float(ValAt(p))
           /\ defaults["impostos_pct"] = try_float(ValAt(p))
           /\ defaults["comissao_pct"] = try_float(ValAt(p))

(***************************************************************************)
(* The page script (lines 119-211).  One run goes prefill -> form -> calc  *)
(* -> rendering; a user edit of a form field starts the next run.  The     *)
(* uploaded file stays the same during a session.                          *)
(***************************************************************************)
MaxEdits == 2

HeaderRow == <<S("Item"), S("Valor"), S("Obs")>>

Sheet(name, rows) == [name |-> name, damaged |-> FALSE, rows |-> rows]

DamagedSheet(name) == [name |-> name, damaged |-> TRUE, rows |-> <<>>]

Xlsx(sheets) == [kind |-> "xlsx", sheets |-> sheets]

NoFile == [kind |-> "none"]

\* what the user may have uploaded: nothing, a file openpyxl cannot open, a
\* workbook whose sheet cannot be parsed, and workbooks with one or two
\* sheets (rows as written in the file, the first one being the header)
Uploads ==
    <<  NoFile,
        [kind |-> "corrupt"],
        Xlsx(<<DamagedSheet("Plan1")>>),
        Xlsx(<<Sheet("Plan1",
                 <<HeaderRow,
                   <<S("Nome do Produto"), S("Mesa"), NaN>>,
                   <<S("Matéria Prima:"), F(21, 2), NaN>>,
                   <<S("CIF por hora"), I(6), NaN>>,
                   <<S("Tempo de fabricação (min)"), S("30"), NaN>>,
                   <<S("ICMS"), S("18%"), NaN>>,
                   <<S("Margem"), S("25"), NaN>> >>)>>),
        Xlsx(<<Sheet("Plan1",
                 <<HeaderRow,
                   <<S("MPD"), I(10), NaN>>,
                   <<S("Comissão"), S("60%"), NaN>>,
                   <<S("ICMS"), S("18%"), NaN>> >>)>>),
        Xlsx(<<Sheet("Plan1",
                 <<HeaderRow,
                   <<S("MPD"), I(10), NaN>>,
                   <<S("Margem"), F(-5, 1), NaN>> >>)>>),
        Xlsx(<<Sheet("Plan1",
                 <<HeaderRow,
                   <<S("MPD"), I(10), NaN>>,
                   <<S("Taxa efetiva"), S("150"), NaN>> >>)>>),
        Xlsx(<<Sheet("Rascunho",
                 <<HeaderRow,
                   <<S("Margem"), F(-5, 1), NaN>> >>),
               Sheet("Tabela de Precificação",
                 <<HeaderRow,
                   <<S("MPD"), I(10), NaN>>,
                   <<S("Antecipação"), S("99,99%"), NaN>> >>)>>),
        Xlsx(<<Sheet("Plan1", << <<S("Margem"), F(30, 1), NaN>> >>)>>),
        Xlsx(<<Sheet("Plan1", <<>>)>>)  >>

\* line 131
SheetName(u) ==
    IF \E i \in 1..Len(u.sheets) : u.sheets[i].name = "Tabela de Precificação"
    THEN "Tabela de Precificação"
    ELSE u.sheets[1].name

SheetNamed(u, name) ==
    u.sheets[CHOOSE i \in 1..Len(u.sheets) : u.sheets[i].name = name]

\* xls.parse: the first row of the sheet becomes the column names, the
\* rows after it the data
Parse(sh) == IF Len(sh.rows) = 0 THEN <<>> ELSE Tail(sh.rows)

ToastOk(name) == [icon |-> "ok", text |-> "Padrões importados da aba", aba |-> name]

ToastFail == [icon |-> "warning", text |-> "Falha ao ler planilha"]

\* lines 130-133: the value of prefill, or the exception raised on the way
ReadUpload(u) ==
    IF u.kind = "corrupt" THEN Raised("ExcelFile")
    ELSE IF SheetNamed(u, SheetName(u)).damaged THEN Raised("parse")
    ELSE LET d == scan_inputs_from_sheet(Parse(SheetNamed(u, SheetName(u))))
         IN  IF Failed(d) THEN Raised("scan") ELSE d

\* mutant: without the except clause of lines 135-136
PrefillBlock_uncaught(u) ==
    IF u.kind = "none"
    THEN [prefill |-> EmptyDict, toasts |-> <<>>, raised |-> FALSE]
    ELSE IF IsRaised(ReadUpload(u))
    THEN [prefill |-> EmptyDict, toasts |-> <<>>, raised |-> TRUE]
    ELSE [prefill |-> ReadUpload(u), toasts |-> <<ToastOk(SheetName(u))>>,
          raised |-> FALSE]

\* lines 127-136
PrefillBlock(u) ==
    IF u.kind = "none"
    THEN [prefill |-> EmptyDict, toasts |-> <<>>, raised |-> FALSE]
    ELSE IF IsRaised(ReadUpload(u))
    THEN [prefill |-> EmptyDict, toasts |-> <<ToastFail>>, raised |-> FALSE]
    ELSE [prefill |-> ReadUpload(u), toasts |-> <<ToastOk(SheetName(u))>>,
          raised |-> FALSE]

PctKeys ==
    {"impostos_pct", "comissao_pct", "despesas_var_pct", "margem_pct",
     "taxa_efetiva_pct"}

\* max_value=99.99 of lines 150-154
MaxPct == Rat(9999, 100)

\* value= of lines 143-154
FieldDefault(pre, k) ==
    IF k = "produto" THEN Get(pre, k, "") ELSE Get(pre, k, Zero)

\* mutant: a number field that accepts any default
number_input_unchecked(k, value, w) == IF k \in DOMAIN w THEN w[k] ELSE value

\* st.number_input(min_value=0.0[, max_value=99.99], value=value): a
\* default outside the limits raises; otherwise the field returns what the
\* user typed, or the default
number_input(k, value, w) ==
    IF RLt(value, Zero) THEN Raised("StreamlitValueBelowMinError")
    ELSE IF k \in PctKeys /\ RLt(MaxPct, value)
    THEN Raised("StreamlitValueAboveMaxError")
    ELSE IF k \in DOMAIN w THEN w[k] ELSE value

\* st.text_input(value=value)
text_input(k, value, w) == IF k \in DOMAIN w THEN w[k] ELSE value

\* lines 143-154: the ten fields
FormFields(pre, w) ==
    [k \in Keys |->
        IF k = "produto" THEN text_input(k, FieldDefault(pre, k), w)
        ELSE number_input(k, FieldDefault(pre, k), w)]

FormRaised(f) == \E k \in NumericKeys : IsRaised(f[k])

\* lines 160-170: the keyword arguments of the call
CallArgs(f) ==
    Args(f["mpd"], f["cif_hora"], f["mod_hora"], f["tempo_min"],
         f["impostos_pct"], f["comissao_pct"], f["despesas_var_pct"],
         f["margem_pct"], f["taxa_efetiva_pct"])

\* mutant: the rendering moved out of the try block, before the except
AfterCalc_render_anyway(o) == "metrics"

\* line 159 / 207: a ValueError raised by the call leaves the try block
AfterCalc(o) == IF o.status = "ok" THEN "metrics" ELSE "except"

\* what the user can type: within the limits the fields enforce
UserValues(k) ==
    IF k = "produto" THEN {"Cadeira"}
    ELSE IF k \in PctKeys THEN {Rat(50, 1), MaxPct}
    ELSE IF k = "tempo_min" THEN {Rat(30, 1)}
    ELSE {Rat(6, 1)}

InitPage ==
    /\ \E i \in 1..Len(Uploads) : up = Uploads[i]
    /\ pc = "prefill"
    /\ prefill = EmptyDict /\ toasts = <<>>
    /\ widgets = EmptyDict /\ fields = EmptyDict
    /\ out = NoResult /\ shown = {}
    /\ edits = 0
    /\ args = ExampleArgs /\ res = NoResult
    /\ IdleScan

\* lines 127-136
Prefill ==
    /\ pc = "prefill"
    /\ \E b \in {PrefillBlock(up)} :
           /\ prefill' = b.prefill
           /\ toasts' = b.toasts
           /\ pc' = IF b.raised THEN "crashed" ELSE "form"
    /\ UNCHANGED <<up, widgets, fields, out, shown, edits, calcVars, scanVars>>

\* lines 139-156, every field accepted
FormOk ==
    /\ pc = "form"
    /\ \E f \in {FormFields(prefill, widgets)} :
           /\ ~FormRaised(f)
           /\ fields' = f
    /\ pc' = "calc"
    /\ UNCHANGED <<up, prefill, toasts, widgets, out, shown, edits,
                   calcVars, scanVars>>

\* lines 139-154, a field raises: the run ends with Streamlit's exception
FormCrash ==
    /\ pc = "form"
    /\ FormRaised(FormFields(prefill, widgets))
    /\ pc' = "crashed"
    /\ UNCHANGED <<up, prefill, toasts, widgets, fields, out, shown, edits,
                   calcVars, scanVars>>

\* lines 159-175
Calc ==
    /\ pc = "calc"
    /\ out' = calcular_precos(CallArgs(fields))
    /\ pc' = AfterCalc(out')
    /\ UNCHANGED <<up, prefill, toasts, widgets, fields, shown, edits,
                   calcVars, scanVars>>

Render(at, what, next) ==
    /\ pc = at
    /\ shown' = shown \cup what
    /\ pc' = next
    /\ UNCHANGED <<up, prefill, toasts, widgets, fields, out, edits,
                   calcVars, scanVars>>

\* lines 177-181
Metrics == Render("metrics", {"metrics"}, "table")

\* lines 183-184
Table == Render("table", {"breakdown"}, "export")

\* lines 186-202
Export == Render("export", {"export"}, "download")

\* lines 204-205
Download == Render("download", {"csv"}, "done")

\* lines 207-209
Except == Render("except", {"error", "info"}, "done")

\* the user changes one field, which reruns the script
UserEdit ==
    /\ pc = "done"
    /\ edits < MaxEdits
    /\ \E k \in Keys : \E v \in UserValues(k) :
           /\ Get(widgets, k, FieldDefault(prefill, k)) # v
           /\ widgets' = Put(widgets, k, v)
    /\ edits' = edits + 1
    /\ pc' = "prefill"
    /\ prefill' = EmptyDict /\ toasts' = <<>>
    /\ fields' = EmptyDict /\ out' = NoResult /\ shown' = {}
    /\ UNCHANGED <<up, calcVars, scanVars>>

Next ==
    \/ Prefill \/ FormOk \/ FormCrash \/ Calc
    \/ Metrics \/ Table \/ Export \/ Download \/ Except
    \/ UserEdit

Spec == InitPage /\ [][Next]_vars

(***************************************************************************)
(* Claims about the page script.                                           *)
(***************************************************************************)
PriceOutputs == {"metrics", "breakdown", "export", "csv"}

\* C5: in a run whose calculation fails none of the price outputs is
\* rendered and the error is shown; in a run whose calculation succeeds all
\* of them are rendered and no error is shown; a price output never stands
\* beside the error.
C5_NoPartialPrice ==
    /\ out.status = "ValueError" =>
           /\ shown \cap PriceOutputs = {}
           /\ pc = "done" => "error" \in shown
    /\ out.status = "ok" =>
           /\ "error" \notin shown
           /\ pc = "done" => PriceOutputs \subseteq shown
    /\ ~("error" \in shown /\ shown \cap PriceOutputs # {})
    /\ pc = "done" => out # NoResult

C5_Witness ==
    /\ pc = "done"
    /\ out = ValueError(MsgSoma)
    /\ shown = {"error", "info"}

ReadFails ==
    \/ up.kind = "corrupt"
    \/ up.kind = "xlsx" /\ SheetNamed(up, SheetName(up)).damaged

AfterPrefill == pc # "prefill"

AfterForm == pc \notin {"prefill", "form", "crashed"}

\* C7: when reading or parsing the upload fails the failure is caught, the
\* notice is issued, prefill stays empty, the run goes on, every field's
\* default is 0 (empty text for the product name) and the calculation is
\* performed.
C7_ReadFailureFallsBackToDefaults ==
    (ReadFails /\ AfterPrefill) =>
        /\ pc # "crashed"
        /\ toasts = <<ToastFail>>
        /\ prefill = EmptyDict
        /\ \A k \in Keys :
               FieldDefault(prefill, k) = (IF k = "produto" THEN "" ELSE Zero)
        /\ AfterForm =>
               \A k \in Keys \ DOMAIN widgets :
                   fields[k] = (IF k = "produto" THEN "" ELSE Zero)
        /\ pc = "done" => out # NoResult
        /\ (pc = "done" /\ edits = 0) =>
               /\ out.status = "ok"
               /\ out.pv_final = Zero

C7_Witness ==
    /\ ReadFails
    /\ toasts = <<ToastFail>>
    /\ pc = "done" /\ edits = 0
    /\ out.status = "ok"
    /\ PriceOutputs \subseteq shown

\* C9: the values the form passes to calcular_precos are >= 0 and the five
\* percentages are <= 99.99, whatever the sheet; so the effective-rate
\* error is never raised through the form (the rate-sum error can be).
C9_FormBounds ==
    /\ AfterForm =>
           /\ \A k \in NumericKeys : RLe(Zero, fields[k])
           /\ \A k \in PctKeys : RLe(fields[k], MaxPct)
    /\ out # ValueError(MsgEfetiva)

C9_Witness ==
    /\ pc = "done"
    /\ out = ValueError(MsgSoma)
    /\ \A k \in PctKeys : RLe(Zero, fields[k]) /\ RLe(fields[k], MaxPct)
    /\ fields["comissao_pct"] = MaxPct

====
